---- MODULE Spec2Model ----
(***************************************************************************)
(* Model of src/src/tokio_impl.rs: AsyncMailbox (recv, recv_timeout),      *)
(* AsyncTask (send, join) and spawn_async_task.  One caller context        *)
(* spawns tasks, sends on their handles, drops or joins them; every task   *)
(* runs one of the bodies the source's tests pass to spawn_async_task, or  *)
(* a free body that may call any mailbox operation.                        *)
(***************************************************************************)
EXTENDS Integers, Sequences, FiniteSets, TLC

\* ---------------------------------------------------------------- bounds
MaxSends == 3      \* send calls per handle
MaxRecvs == 3      \* largest loop count n of a fold body (for _ in 0..n)
MaxOps == 3        \* mailbox calls of a free body
MaxTime == 2       \* clock ticks
MaxDur == 2        \* largest duration passed to recv_timeout

\* ------------------------------------------------------ program constants
NumTasks == 2      \* test_multiple_async_tasks spawns two tasks
ConstResult == 42  \* test_async_empty_task's body
NumProducers == 2  \* concurrent senders sharing one &AsyncTask

Tasks == 1..NumTasks
Producers == 1..NumProducers
Msgs == {10, 20, 30}
Durations == 1..MaxDur

\* ------------------------------------------------------------ task bodies
\* The closures given to spawn_async_task.  kind "fold": n times
\* acc = step(acc, recv().await.unwrap()), then acc.  kind "const": the
\* body never touches the mailbox and yields ConstResult; hold says whether
\* the returned future owns the mailbox (the test's closure does not move
\* it into the async block, so it is dropped when the closure returns).
\* kind "free": any sequence of mailbox calls, then return or panic.
Steps == {"sum", "dbl", "vec", "count"}

FoldBodies == [kind : {"fold"}, n : 1..MaxRecvs, step : Steps, hold : {TRUE}]

ConstBodies == [kind : {"const"}, n : {0}, step : {"sum"}, hold : BOOLEAN]

FreeBodies == [kind : {"free"}, n : {0}, step : {"count"}, hold : {TRUE}]

Bodies == FoldBodies \cup ConstBodies \cup FreeBodies

NoBody == [kind |-> "none", n |-> 0, step |-> "sum", hold |-> FALSE]

\* A body's value: the integer total of the summing and counting bodies
\* (n), the Vec of the collecting body (v).
IntVal(i) == [n |-> i, v |-> <<>>]

InitAcc == IntVal(0)

Step(s, a, v) ==
    CASE s = "sum" -> [a EXCEPT !.n = @ + v]
      [] s = "dbl" -> [a EXCEPT !.n = @ * 2 + v]
      [] s = "vec" -> [a EXCEPT !.v = Append(@, v)]
      [] s = "count" -> [a EXCEPT !.n = @ + 1]

\* ------------------------------------------------- results of mailbox calls
Some(v) == [k |-> "some", v |-> v]
None == [k |-> "none", v |-> 0]
Timeout == [k |-> "timeout", v |-> 0]

\* ------------------------------------------------------------------ state
VARIABLES
    body,      \* body[t]: the closure task t was spawned with
    queue,     \* queue[t]: the unbounded channel's buffer
    txAlive,   \* txAlive[t]: the handle's UnboundedSender exists
    rxAlive,   \* rxAlive[t]: the AsyncMailbox (UnboundedReceiver) exists
    tpc,       \* tpc[t]: where task t's future is
    acc,       \* acc[t]: the body's accumulator
    iter,      \* iter[t]: completed iterations of a fold body's loop
    result,    \* result[t]: the output stored in the JoinHandle
    deadline,  \* deadline[t]: the Sleep of the running recv_timeout
    now,       \* the runtime's clock
    cpc,       \* the caller: "run", "join" or "panicked"
    hstate,    \* hstate[t]: the caller's AsyncTask value
    joinval,   \* joinval[t]: what join returned
    lastSend,  \* what the latest send call was given and returned
    sent,      \* history: payloads of the sends that returned Ok
    log,       \* history: what the mailbox calls of task t returned
    calls,     \* history: send calls made on handle t
    rtCall,    \* history: the latest recv_timeout call of task t
    pnext      \* pnext[p]: send calls producer p made through a shared &AsyncTask

vars == <<body, queue, txAlive, rxAlive, tpc, acc, iter, result, deadline,
          now, cpc, hstate, joinval, lastSend, sent, calls, log, rtCall,
          pnext>>

NoSend == [task |-> 0, payload |-> 0, ok |-> TRUE, returned |-> 0, len |-> 0]

NoCall == [at |-> 0, d |-> 0, end |-> 0]

Init ==
    /\ body = [t \in Tasks |-> NoBody]
    /\ queue = [t \in Tasks |-> <<>>]
    /\ txAlive = [t \in Tasks |-> FALSE]
    /\ rxAlive = [t \in Tasks |-> FALSE]
    /\ tpc = [t \in Tasks |-> "none"]
    /\ acc = [t \in Tasks |-> InitAcc]
    /\ iter = [t \in Tasks |-> 0]
    /\ result = [t \in Tasks |-> InitAcc]
    /\ deadline = [t \in Tasks |-> 0]
    /\ now = 0
    /\ cpc = "run"
    /\ hstate = [t \in Tasks |-> "none"]
    /\ joinval = [t \in Tasks |-> InitAcc]
    /\ lastSend = NoSend
    /\ sent = [t \in Tasks |-> <<>>]
    /\ calls = [t \in Tasks |-> 0]
    /\ log = [t \in Tasks |-> <<>>]
    /\ rtCall = [t \in Tasks |-> NoCall]
    /\ pnext = [p \in Producers |-> 0]

\* ------------------------------------------------------------ the channel
\* tokio's unbounded mpsc channel as the source uses it: send appends
\* unless the receiver is gone and then hands the payload back; recv
\* completes when a message is buffered or every sender is gone.
\* Mutants of ChanSend: the payload put at the head; an error that does not
\* carry the payload; a channel with a capacity of two.
ChanSendFront(q, rx, m) ==
    IF rx
    THEN [ok |-> TRUE, q |-> <<m>> \o q, returned |-> 0]
    ELSE [ok |-> FALSE, q |-> q, returned |-> m]

ChanSendLosing(q, rx, m) ==
    IF rx
    THEN [ok |-> TRUE, q |-> Append(q, m), returned |-> 0]
    ELSE [ok |-> FALSE, q |-> q, returned |-> 0]

ChanSendBounded(q, rx, m) ==
    IF rx /\ Len(q) < 2
    THEN [ok |-> TRUE, q |-> Append(q, m), returned |-> 0]
    ELSE [ok |-> FALSE, q |-> q, returned |-> m]

\* Mutant of ChanSend: a payload for a dropped receiver is accepted and
\* discarded.
ChanSendSilent(q, rx, m) ==
    IF rx
    THEN [ok |-> TRUE, q |-> Append(q, m), returned |-> 0]
    ELSE [ok |-> TRUE, q |-> q, returned |-> 0]

ChanSend(q, rx, m) ==
    IF rx
    THEN [ok |-> TRUE, q |-> Append(q, m), returned |-> 0]
    ELSE [ok |-> FALSE, q |-> q, returned |-> m]

\* Mutant of ChanRecvReady: a closed channel does not wake the receiver.
ChanRecvReadyOpenOnly(q, tx) == q # <<>>

\* Mutant of ChanRecvReady: an empty open channel reads as closed.
ChanRecvReadyAlways(q, tx) == TRUE

ChanRecvReady(q, tx) == q # <<>> \/ ~tx

\* Mutant of ChanRecv: a receive also discards the entry behind the head.
ChanRecvSkip(q, tx) ==
    IF q # <<>>
    THEN [res |-> Some(Head(q)), q |-> SubSeq(q, 3, Len(q))]
    ELSE [res |-> None, q |-> q]

\* Mutant of ChanRecv: a receive returns the head and leaves it queued.
ChanRecvPeek(q, tx) ==
    IF q # <<>>
    THEN [res |-> Some(Head(q)), q |-> q]
    ELSE [res |-> None, q |-> q]

\* Mutant of ChanRecv: the newest message first.
ChanRecvLifo(q, tx) ==
    IF q # <<>>
    THEN [res |-> Some(q[Len(q)]), q |-> SubSeq(q, 1, Len(q) - 1)]
    ELSE [res |-> None, q |-> q]

ChanRecv(q, tx) ==
    IF q # <<>>
    THEN [res |-> Some(Head(q)), q |-> Tail(q)]
    ELSE [res |-> None, q |-> q]

\* Mutant of Elapsed: the timer fires at once.
ElapsedAlways(t, dl) == TRUE

\* The Sleep inside tokio::time::timeout has elapsed.
Elapsed(t, dl) == t >= dl

InTimeout(t) == tpc[t] \in {"rt_recv", "rt_delay", "rt_wait"}

\* ----------------------------------------------------------------- caller
\* Mutant of Spawn: spawn waits for the task it started.
SpawnBlocking(t, b) ==
    /\ cpc = "run"
    /\ hstate[t] = "none"
    /\ \A u \in Tasks : u < t => hstate[u] # "none"
    /\ body' = [body EXCEPT ![t] = b]
    /\ queue' = [queue EXCEPT ![t] = <<>>]
    /\ txAlive' = [txAlive EXCEPT ![t] = TRUE]
    /\ rxAlive' = [rxAlive EXCEPT ![t] = b.hold]
    /\ tpc' = [tpc EXCEPT ![t] = b.kind]
    /\ acc' = [acc EXCEPT ![t] = InitAcc]
    /\ hstate' = [hstate EXCEPT ![t] = "joining"]
    /\ cpc' = "join"
    /\ UNCHANGED <<iter, result, deadline, now, joinval, lastSend,
                   sent, calls, log, rtCall, pnext>>

\* spawn_async_task(func): a fresh channel, the mailbox moved into func,
\* the future handed to tokio::spawn, the handle returned.
Spawn(t, b) ==
    /\ cpc = "run"
    /\ hstate[t] = "none"
    /\ \A u \in Tasks : u < t => hstate[u] # "none"
    /\ body' = [body EXCEPT ![t] = b]
    /\ queue' = [queue EXCEPT ![t] = <<>>]
    /\ txAlive' = [txAlive EXCEPT ![t] = TRUE]
    /\ rxAlive' = [rxAlive EXCEPT ![t] = b.hold]
    /\ tpc' = [tpc EXCEPT ![t] = b.kind]
    /\ acc' = [acc EXCEPT ![t] = InitAcc]
    /\ hstate' = [hstate EXCEPT ![t] = "held"]
    /\ UNCHANGED <<iter, result, deadline, now, cpc, joinval, lastSend,
                   sent, calls, log, rtCall,
                   pnext>>

\* Mutant of ChannelOf: every spawn shares one channel.
ChannelOfShared(t) == 1

\* The channel handle t's sender is an end of: the one its own spawn made.
ChannelOf(t) == t

\* AsyncTask::send(&self, payload): self.sender.send(payload).
Send(t, m) ==
    /\ cpc = "run"
    /\ hstate[t] = "held"
    /\ calls[t] < MaxSends
    /\ LET c == ChannelOf(t)
           r == ChanSend(queue[c], rxAlive[c], m) IN
        /\ queue' = [queue EXCEPT ![c] = r.q]
        /\ lastSend' = [task |-> t, payload |-> m, ok |-> r.ok,
                        returned |-> r.returned, len |-> Len(queue[c])]
        /\ sent' = [sent EXCEPT ![t] = IF r.ok THEN Append(@, m) ELSE @]
    /\ calls' = [calls EXCEPT ![t] = @ + 1]
    /\ UNCHANGED <<body, txAlive, rxAlive, tpc, acc, iter, result, deadline,
                   now, cpc, hstate, joinval, log, rtCall,
                   pnext>>

\* The k-th payload of producer p: each producer numbers its messages and
\* marks them with its own identity.
ProdMsg(p, k) == 10 * k + p

OwnerOf(m) == m % 10

\* AsyncTask::send(&self, payload) called by producer p, one of several
\* concurrent contexts that share a borrow of handle 1.
SendBy(p) ==
    /\ hstate[1] = "held"
    /\ pnext[p] < MaxSends
    /\ LET c == ChannelOf(1)
           m == ProdMsg(p, pnext[p] + 1)
           r == ChanSend(queue[c], rxAlive[c], m) IN
        /\ queue' = [queue EXCEPT ![c] = r.q]
        /\ lastSend' = [task |-> 1, payload |-> m, ok |-> r.ok,
                        returned |-> r.returned, len |-> Len(queue[c])]
        /\ sent' = [sent EXCEPT ![1] = IF r.ok THEN Append(@, m) ELSE @]
    /\ calls' = [calls EXCEPT ![1] = @ + 1]
    /\ pnext' = [pnext EXCEPT ![p] = @ + 1]
    /\ UNCHANGED <<body, txAlive, rxAlive, tpc, acc, iter, result, deadline,
                   now, cpc, hstate, joinval, log, rtCall>>

\* AsyncTask::join(self): the caller starts awaiting self.handle.
JoinCall(t) ==
    /\ cpc = "run"
    /\ hstate[t] = "held"
    /\ cpc' = "join"
    /\ hstate' = [hstate EXCEPT ![t] = "joining"]
    /\ UNCHANGED <<body, queue, txAlive, rxAlive, tpc, acc, iter, result,
                   deadline, now, joinval, lastSend, sent, calls, log, rtCall,
                   pnext>>

\* Mutant of JoinReady: join does not wait for the task.
JoinReadyEarly(t) == TRUE

\* The JoinHandle resolves once the task's future has ended.
JoinReady(t) == tpc[t] \in {"done", "panicked"}

\* Mutant of JoinOutcome: a JoinError is swallowed (unwrap_or_default).
JoinOutcomeSwallow(t) == "value"

\* What awaiting the JoinHandle and unwrapping gives: a JoinError (the
\* task panicked) makes unwrap panic, anything else is the output.
JoinOutcome(t) == IF tpc[t] = "panicked" THEN "panic" ELSE "value"

\* Mutant of JoinValue: a default instead of the task's output.
JoinValueDefault(t) == InitAcc

\* The output the JoinHandle holds for the joiner.
JoinValue(t) == result[t]

\* self.handle.await.unwrap(): the task's output, or a panic of the caller
\* on a JoinError; self.sender is dropped when join's body ends, and a
\* panicking caller drops every handle it still holds.
JoinReturn(t) ==
    /\ hstate[t] = "joining"
    /\ JoinReady(t)
    /\ IF JoinOutcome(t) = "value"
       THEN /\ joinval' = [joinval EXCEPT ![t] = JoinValue(t)]
            /\ hstate' = [hstate EXCEPT ![t] = "joined"]
            /\ txAlive' = [txAlive EXCEPT ![t] = FALSE]
            /\ cpc' = "run"
       ELSE /\ cpc' = "panicked"
            /\ hstate' = [u \in Tasks |->
                            IF hstate[u] \in {"held", "joining"}
                            THEN "dropped" ELSE hstate[u]]
            /\ txAlive' = [u \in Tasks |-> FALSE]
            /\ UNCHANGED joinval
    /\ UNCHANGED <<body, queue, rxAlive, tpc, acc, iter, result, deadline,
                   now, lastSend, sent, calls, log, rtCall,
                   pnext>>

\* Mutant of DropHandle: dropping the handle aborts the task.
DropHandleAbort(t) ==
    /\ cpc = "run"
    /\ hstate[t] = "held"
    /\ hstate' = [hstate EXCEPT ![t] = "dropped"]
    /\ txAlive' = [txAlive EXCEPT ![t] = FALSE]
    /\ tpc' = [tpc EXCEPT ![t] = "panicked"]
    /\ rxAlive' = [rxAlive EXCEPT ![t] = FALSE]
    /\ queue' = [queue EXCEPT ![t] = <<>>]
    /\ UNCHANGED <<body, acc, iter, result, deadline, now, cpc, joinval,
                   lastSend, sent, calls, log, rtCall, pnext>>

\* The caller drops its AsyncTask without joining: the sender goes, the
\* task is detached and keeps running.
DropHandle(t) ==
    /\ cpc = "run"
    /\ hstate[t] = "held"
    /\ hstate' = [hstate EXCEPT ![t] = "dropped"]
    /\ txAlive' = [txAlive EXCEPT ![t] = FALSE]
    /\ UNCHANGED <<body, queue, rxAlive, tpc, acc, iter, result, deadline,
                   now, cpc, joinval, lastSend, sent, calls, log, rtCall,
                   pnext>>

\* ------------------------------------------------------------------ tasks
\* Mutant of Finish: a panicking future leaks its mailbox.
FinishLeak(t, how, val) ==
    /\ tpc' = [tpc EXCEPT ![t] = how]
    /\ result' = [result EXCEPT ![t] = val]
    /\ rxAlive' = [rxAlive EXCEPT ![t] = (how = "panicked")]
    /\ queue' = [queue EXCEPT ![t] = IF how = "panicked" THEN @ ELSE <<>>]

\* The future ends: its output goes to the JoinHandle and everything it
\* owns is dropped, the mailbox and the messages still buffered included.
Finish(t, how, val) ==
    /\ tpc' = [tpc EXCEPT ![t] = how]
    /\ result' = [result EXCEPT ![t] = val]
    /\ rxAlive' = [rxAlive EXCEPT ![t] = FALSE]
    /\ queue' = [queue EXCEPT ![t] = <<>>]

\* A fold body's receiver.recv().await.unwrap() and its loop step; the
\* unwrap of None panics the task.
FoldRecv(t) ==
    /\ tpc[t] = "fold"
    /\ iter[t] < body[t].n
    /\ ChanRecvReady(queue[t], txAlive[t])
    /\ LET r == ChanRecv(queue[t], txAlive[t]) IN
        /\ log' = [log EXCEPT ![t] = Append(@, r.res)]
        /\ IF r.res.k = "some"
           THEN /\ queue' = [queue EXCEPT ![t] = r.q]
                /\ acc' = [acc EXCEPT ![t] = Step(body[t].step, @, r.res.v)]
                /\ iter' = [iter EXCEPT ![t] = @ + 1]
                /\ UNCHANGED <<tpc, result, rxAlive>>
           ELSE /\ Finish(t, "panicked", result[t])
                /\ UNCHANGED <<acc, iter>>
    /\ UNCHANGED <<body, txAlive, deadline, now, cpc, hstate, joinval,
                   lastSend, sent, calls, rtCall,
                   pnext>>

\* A fold body's loop is over: the async block yields its accumulator.
FoldReturn(t) ==
    /\ tpc[t] = "fold"
    /\ iter[t] = body[t].n
    /\ Finish(t, "done", acc[t])
    /\ UNCHANGED <<body, txAlive, acc, iter, deadline, now, cpc, hstate,
                   joinval, lastSend, sent, calls, log, rtCall,
                   pnext>>

\* async move { 42 }.
ConstReturn(t) ==
    /\ tpc[t] = "const"
    /\ Finish(t, "done", IntVal(ConstResult))
    /\ UNCHANGED <<body, txAlive, acc, iter, deadline, now, cpc, hstate,
                   joinval, lastSend, sent, calls, log, rtCall,
                   pnext>>

\* AsyncMailbox::recv called by a free body: self.receiver.recv().await.
FreeRecv(t) ==
    /\ tpc[t] = "free"
    /\ rxAlive[t]
    /\ Len(log[t]) < MaxOps
    /\ ChanRecvReady(queue[t], txAlive[t])
    /\ LET r == ChanRecv(queue[t], txAlive[t]) IN
        /\ log' = [log EXCEPT ![t] = Append(@, r.res)]
        /\ queue' = [queue EXCEPT ![t] = r.q]
        /\ acc' = [acc EXCEPT ![t] =
                     IF r.res.k = "some" THEN Step(body[t].step, @, r.res.v)
                     ELSE @]
    /\ UNCHANGED <<body, txAlive, rxAlive, tpc, iter, result, deadline, now,
                   cpc, hstate, joinval, lastSend, sent, calls, rtCall,
                   pnext>>

\* AsyncMailbox::recv_timeout(duration): tokio::time::timeout(duration,
\* self.recv()) arms its Sleep when it is built.
RtCall(t, d) ==
    /\ tpc[t] = "free"
    /\ rxAlive[t]
    /\ Len(log[t]) < MaxOps
    /\ tpc' = [tpc EXCEPT ![t] = "rt_recv"]
    /\ deadline' = [deadline EXCEPT ![t] = now + d]
    /\ rtCall' = [rtCall EXCEPT ![t] = [at |-> now, d |-> d, end |-> now]]
    /\ UNCHANGED <<body, queue, txAlive, rxAlive, acc, iter, result, now,
                   cpc, hstate, joinval, lastSend, sent, calls, log,
                   pnext>>

\* The Timeout future polls the wrapped recv first.
RtPollRecv(t) ==
    /\ tpc[t] = "rt_recv"
    /\ IF ChanRecvReady(queue[t], txAlive[t])
       THEN LET r == ChanRecv(queue[t], txAlive[t]) IN
            /\ log' = [log EXCEPT ![t] = Append(@, r.res)]
            /\ queue' = [queue EXCEPT ![t] = r.q]
            /\ acc' = [acc EXCEPT ![t] =
                         IF r.res.k = "some"
                         THEN Step(body[t].step, @, r.res.v) ELSE @]
            /\ tpc' = [tpc EXCEPT ![t] = "free"]
            /\ rtCall' = [rtCall EXCEPT ![t].end = now]
       ELSE /\ tpc' = [tpc EXCEPT ![t] = "rt_delay"]
            /\ UNCHANGED <<log, queue, acc, rtCall>>
    /\ UNCHANGED <<body, txAlive, rxAlive, iter, result, deadline, now, cpc,
                   hstate, joinval, lastSend, sent, calls,
                   pnext>>

\* Mutant of RtPollDelay: the expired call takes the message that arrived
\* after its last poll of recv and reports Timeout all the same.
RtPollDelayLossy(t) ==
    /\ tpc[t] = "rt_delay"
    /\ IF Elapsed(now, deadline[t])
       THEN /\ log' = [log EXCEPT ![t] = Append(@, Timeout)]
            /\ tpc' = [tpc EXCEPT ![t] = "free"]
            /\ rtCall' = [rtCall EXCEPT ![t].end = now]
            /\ queue' = [queue EXCEPT ![t] = IF @ = <<>> THEN @ ELSE Tail(@)]
       ELSE /\ tpc' = [tpc EXCEPT ![t] = "rt_wait"]
            /\ UNCHANGED <<log, rtCall, queue>>
    /\ UNCHANGED <<body, txAlive, rxAlive, acc, iter, result,
                   deadline, now, cpc, hstate, joinval, lastSend, sent,
                   calls, pnext>>

\* recv was pending: the Timeout future polls its Sleep, and map_err turns
\* Elapsed into RecvTimeoutError::Timeout.
RtPollDelay(t) ==
    /\ tpc[t] = "rt_delay"
    /\ IF Elapsed(now, deadline[t])
       THEN /\ log' = [log EXCEPT ![t] = Append(@, Timeout)]
            /\ tpc' = [tpc EXCEPT ![t] = "free"]
            /\ rtCall' = [rtCall EXCEPT ![t].end = now]
       ELSE /\ tpc' = [tpc EXCEPT ![t] = "rt_wait"]
            /\ UNCHANGED <<log, rtCall>>
    /\ UNCHANGED <<body, queue, txAlive, rxAlive, acc, iter, result,
                   deadline, now, cpc, hstate, joinval, lastSend, sent,
                   calls,
                   pnext>>

\* The suspended recv_timeout is woken by the channel or by the timer.
RtWake(t) ==
    /\ tpc[t] = "rt_wait"
    /\ ChanRecvReady(queue[t], txAlive[t]) \/ Elapsed(now, deadline[t])
    /\ tpc' = [tpc EXCEPT ![t] = "rt_recv"]
    /\ UNCHANGED <<body, queue, txAlive, rxAlive, acc, iter, result,
                   deadline, now, cpc, hstate, joinval, lastSend, sent,
                   calls, log, rtCall,
                   pnext>>

\* A free body drops its mailbox while it keeps running.
FreeDropMailbox(t) ==
    /\ tpc[t] = "free"
    /\ rxAlive[t]
    /\ rxAlive' = [rxAlive EXCEPT ![t] = FALSE]
    /\ queue' = [queue EXCEPT ![t] = <<>>]
    /\ UNCHANGED <<body, txAlive, tpc, acc, iter, result, deadline, now,
                   cpc, hstate, joinval, lastSend, sent, calls, log, rtCall,
                   pnext>>

\* A free body returns its accumulator.
FreeReturn(t) ==
    /\ tpc[t] = "free"
    /\ Finish(t, "done", acc[t])
    /\ UNCHANGED <<body, txAlive, acc, iter, deadline, now, cpc, hstate,
                   joinval, lastSend, sent, calls, log, rtCall,
                   pnext>>

\* A free body panics.
FreePanic(t) ==
    /\ tpc[t] = "free"
    /\ Finish(t, "panicked", result[t])
    /\ UNCHANGED <<body, txAlive, acc, iter, deadline, now, cpc, hstate,
                   joinval, lastSend, sent, calls, log, rtCall,
                   pnext>>

\* A body that loops on mailbox.recv().await until it returns None
\* (while let Some(v) = mb.recv().await) and then returns its accumulator.
DrainBodies == [kind : {"drain"}, n : {0}, step : {"sum", "vec"}, hold : {TRUE}]

\* One receiver.recv().await of the draining loop: a message is folded in,
\* None ends the loop.
DrainRecv(t) ==
    /\ tpc[t] = "drain"
    /\ ChanRecvReady(queue[t], txAlive[t])
    /\ LET r == ChanRecv(queue[t], txAlive[t]) IN
        /\ log' = [log EXCEPT ![t] = Append(@, r.res)]
        /\ queue' = [queue EXCEPT ![t] = r.q]
        /\ IF r.res.k = "some"
           THEN /\ acc' = [acc EXCEPT ![t] = Step(body[t].step, @, r.res.v)]
                /\ UNCHANGED tpc
           ELSE /\ tpc' = [tpc EXCEPT ![t] = "drained"]
                /\ UNCHANGED acc
    /\ UNCHANGED <<body, txAlive, rxAlive, iter, result, deadline, now, cpc,
                   hstate, joinval, lastSend, sent, calls, rtCall, pnext>>

\* The draining loop is over: the body returns its accumulator.
DrainReturn(t) ==
    /\ tpc[t] = "drained"
    /\ Finish(t, "done", acc[t])
    /\ UNCHANGED <<body, txAlive, acc, iter, deadline, now, cpc, hstate,
                   joinval, lastSend, sent, calls, log, rtCall, pnext>>

\* Time passes; it is observed only by a running recv_timeout.
Tick ==
    /\ now < MaxTime
    /\ \E t \in Tasks : InTimeout(t)
    /\ now' = now + 1
    /\ UNCHANGED <<body, queue, txAlive, rxAlive, tpc, acc, iter, result,
                   deadline, cpc, hstate, joinval, lastSend, sent, calls,
                   log, rtCall,
                   pnext>>

\* ---------------------------------------------------------- specifications
TaskStep(t) ==
    \/ FoldRecv(t)
    \/ FoldReturn(t)
    \/ ConstReturn(t)
    \/ FreeRecv(t)
    \/ \E d \in Durations : RtCall(t, d)
    \/ RtPollRecv(t)
    \/ RtPollDelay(t)
    \/ RtWake(t)
    \/ FreeDropMailbox(t)
    \/ FreeReturn(t)
    \/ FreePanic(t)

CallerStep(t) ==
    \/ \E b \in Bodies : Spawn(t, b)
    \/ \E m \in Msgs : Send(t, m)
    \/ JoinCall(t)
    \/ JoinReturn(t)
    \/ DropHandle(t)

\* One task and its caller.
Next ==
    \/ CallerStep(1)
    \/ TaskStep(1)
    \/ Tick

Spec == Init /\ [][Next]_vars

\* One task with a body of the source's tests and its caller, under the
\* runtime's scheduling: a caller whose JoinHandle has resolved is resumed,
\* and a task that can make a step is polled.
JoinBodies == FoldBodies \cup ConstBodies

NextJoin ==
    \/ \E b \in JoinBodies : Spawn(1, b)
    \/ \E m \in Msgs : Send(1, m)
    \/ JoinCall(1)
    \/ JoinReturn(1)
    \/ DropHandle(1)
    \/ FoldRecv(1)
    \/ FoldReturn(1)
    \/ ConstReturn(1)

FairSpec ==
    /\ Init
    /\ [][NextJoin]_vars
    /\ WF_vars(JoinReturn(1))
    /\ WF_vars(FoldRecv(1) \/ FoldReturn(1) \/ ConstReturn(1))

\* Two tasks with fold bodies (test_multiple_async_tasks) and their caller.
\* The first task sums, the second computes total * 2 + val.
TwoBody(t) ==
    [kind |-> "fold", n |-> MaxRecvs,
     step |-> IF t = 1 THEN "sum" ELSE "dbl", hold |-> TRUE]

TwoMsgs == {10, 20}

NextTwo ==
    \E t \in Tasks :
        \/ Spawn(t, TwoBody(t))
        \/ \E m \in TwoMsgs : Send(t, m)
        \/ JoinCall(t)
        \/ JoinReturn(t)
        \/ DropHandle(t)
        \/ FoldRecv(t)
        \/ FoldReturn(t)

SpecTwo == Init /\ [][NextTwo]_vars

\* Several producers share the handle of one task that collects what it
\* receives (test_async_task_returns_vec's body).
VecBodies == {b \in FoldBodies : b.step = "vec"}

NextProd ==
    \/ \E b \in VecBodies : Spawn(1, b)
    \/ \E p \in Producers : SendBy(p)
    \/ FoldRecv(1)
    \/ FoldReturn(1)

SpecProd == Init /\ [][NextProd]_vars

\* A caller that keeps its two handles: the first task runs a body that
\* receives and may return or panic at any point, the second a fold body
\* of one iteration.
FireBody(t) ==
    IF t = 1 THEN CHOOSE b \in FreeBodies : TRUE
    ELSE [kind |-> "fold", n |-> 1, step |-> "dbl", hold |-> TRUE]

NextFire ==
    \E t \in Tasks :
        \/ Spawn(t, FireBody(t))
        \/ \E m \in TwoMsgs : Send(t, m)
        \/ JoinCall(t)
        \/ JoinReturn(t)
        \/ FoldRecv(t)
        \/ FoldReturn(t)
        \/ FreeRecv(t)
        \/ FreeReturn(t)
        \/ FreePanic(t)

SpecFire == Init /\ [][NextFire]_vars

\* One task and its caller under the runtime's scheduling; the body either
\* drains its mailbox until the closed signal or is a for loop of the
\* source's tests.
DrainStep(t) == DrainRecv(t) \/ DrainReturn(t)

NextDrain ==
    \/ \E b \in DrainBodies \cup VecBodies : Spawn(1, b)
    \/ \E m \in Msgs : Send(1, m)
    \/ JoinCall(1)
    \/ JoinReturn(1)
    \/ DropHandle(1)
    \/ DrainRecv(1)
    \/ DrainReturn(1)
    \/ FoldRecv(1)
    \/ FoldReturn(1)

SpecDrain ==
    /\ Init
    /\ [][NextDrain]_vars
    /\ WF_vars(JoinReturn(1))
    /\ WF_vars(DrainStep(1) \/ FoldRecv(1) \/ FoldReturn(1))

\* ------------------------------------------------------------- histories
IsPrefix(a, b) ==
    /\ Len(a) <= Len(b)
    /\ \A i \in 1..Len(a) : a[i] = b[i]

IsSome(r) == r.k = "some"

\* The messages task t's mailbox calls returned, in order.
Rcvd(t) ==
    LET s == SelectSeq(log[t], IsSome) IN [i \in 1..Len(s) |-> s[i].v]

Last(s) == s[Len(s)]

RECURSIVE FoldLeft(_, _, _)
FoldLeft(s, a, seq) ==
    IF seq = <<>> THEN a ELSE FoldLeft(s, Step(s, a, Head(seq)), Tail(seq))

\* A mailbox call of task t returns in this step; its result is
\* Last(log'[t]).
RecvReturned(t) == Len(log'[t]) = Len(log[t]) + 1

\* A send call on handle t is made in this step.
SendCalled(t) == calls'[t] = calls[t] + 1

\* ----------------------------------------------------------------- claims

\* C1: FIFO delivery from a single producer.  At every moment the messages
\* the mailbox has returned are a prefix of the messages sent with Ok, in
\* send order; a body that collects n receives ends with exactly the first
\* n sent messages, in order.
C1_Fifo ==
    \A t \in Tasks :
        /\ IsPrefix(Rcvd(t), sent[t])
        /\ (body[t].kind = "fold" /\ body[t].step = "vec" /\ tpc[t] = "done")
              => result[t].v = SubSeq(sent[t], 1, body[t].n)

C1_Witness ==
    /\ body[1].kind = "fold"
    /\ body[1].step = "vec"
    /\ tpc[1] = "done"
    /\ result[1].v = <<10, 20, 30>>

\* C2: aggregation.  Once join has returned for a task that folds n
\* received values with sum or with total*2+v, the value is the left fold
\* of the first n sent values in send order; 10, 20, 30 gives 60 and 110.
C2_Aggregation ==
    \A t \in Tasks :
        (hstate[t] = "joined" /\ body[t].kind = "fold"
              /\ body[t].step \in {"sum", "dbl"})
        => LET s == SubSeq(sent[t], 1, body[t].n) IN
            /\ joinval[t] = FoldLeft(body[t].step, InitAcc, s)
            /\ s = <<10, 20, 30>>
                  => joinval[t].n = IF body[t].step = "sum" THEN 60 ELSE 110

C2_Witness ==
    /\ hstate[1] = "joined"
    /\ body[1].kind = "fold"
    /\ body[1].step = "dbl"
    /\ sent[1] = <<10, 20, 30>>
    /\ joinval[1].n = 110

\* C3: join returns only after the task's future has run to completion and
\* then yields exactly the output the body produced; a caller waiting in
\* join on a task that has ended normally eventually returns.
C3_Join ==
    /\ [](\A t \in Tasks :
            hstate[t] = "joined" => tpc[t] = "done" /\ joinval[t] = result[t])
    /\ \A t \in Tasks :
            (hstate[t] = "joining" /\ tpc[t] = "done") ~> (hstate[t] = "joined")

C3_Witness ==
    /\ hstate[1] = "joined"
    /\ body[1].kind = "fold"
    /\ body[1].step = "sum"
    /\ joinval[1].n = 60

\* C4: a send on a handle whose task has ended returns an error that
\* carries the payload it was given, and enqueues nothing.
C4_SendAfterGone ==
    [][\A t \in Tasks :
         (SendCalled(t) /\ tpc[t] \in {"done", "panicked"})
         => /\ ~lastSend'.ok
            /\ lastSend'.returned = lastSend'.payload
            /\ queue'[t] = queue[t]
            /\ sent'[t] = sent[t]]_vars

C4_Witness ==
    /\ tpc[1] = "done"
    /\ body[1].kind = "fold"
    /\ lastSend.task = 1
    /\ ~lastSend.ok
    /\ lastSend.returned = 30
    /\ sent[1] # <<>>

\* C5: recv gives the closed signal only when the sender is gone and the
\* buffer is empty; a buffered message is delivered first, oldest first,
\* also after the sender is gone; after one closed signal every later
\* mailbox call gives the closed signal.
C5_Closed ==
    [][\A t \in Tasks :
         RecvReturned(t)
         => LET r == Last(log'[t]) IN
            /\ r = None => ~txAlive[t] /\ queue[t] = <<>>
            /\ (queue[t] # <<>> /\ r # Timeout) => r = Some(Head(queue[t]))
            /\ (log[t] # <<>> /\ Last(log[t]) = None) => r = None]_vars

C5_Witness ==
    /\ ~txAlive[1]
    /\ log[1] = <<Some(10), None, None>>

\* C6: recv_timeout times out no earlier than its duration after the call
\* and takes nothing from the queue; on an empty mailbox with a live sender
\* a returning recv_timeout returns Timeout; the recv after a timeout
\* returns the oldest message sent since.
C6_Timeout ==
    [][\A t \in Tasks :
         RecvReturned(t)
         => LET r == Last(log'[t]) IN
            /\ r = Timeout
                  => /\ now >= rtCall[t].at + rtCall[t].d
                     /\ queue'[t] = queue[t]
            /\ (InTimeout(t) /\ queue[t] = <<>> /\ txAlive[t]) => r = Timeout
            /\ (tpc[t] = "free" /\ log[t] # <<>> /\ Last(log[t]) = Timeout
                  /\ queue[t] # <<>>)
                  => r = Some(Head(queue[t]))]_vars

C6_Witness ==
    /\ log[1] = <<Timeout, Some(20)>>
    /\ rtCall[1].d = 2
    /\ rtCall[1].end = 2

\* C7: join on a task that panicked panics the joiner and never returns a
\* value.
C7_Panic ==
    /\ [](\A t \in Tasks : hstate[t] = "joined" => tpc[t] # "panicked")
    /\ [][\A t \in Tasks :
            (hstate[t] = "joining" /\ hstate'[t] # "joining"
                  /\ tpc[t] = "panicked")
            => cpc' = "panicked" /\ joinval'[t] = joinval[t]]_vars

C7_Witness ==
    /\ tpc[1] = "panicked"
    /\ cpc = "panicked"
    /\ hstate[1] = "dropped"

\* C8: with two tasks, what each mailbox returns is a prefix of what was
\* sent on its own handle, and what join returns for a task is the fold of
\* what was sent on its own handle, whatever was sent on the other.
C8_Independence ==
    \A t \in Tasks :
        /\ IsPrefix(Rcvd(t), sent[t])
        /\ Len(sent[t]) = Len(Rcvd(t)) + Len(queue[t]) \/ ~rxAlive[t]
        /\ hstate[t] = "joined"
              => joinval[t] =
                    FoldLeft(body[t].step, InitAcc, SubSeq(sent[t], 1, body[t].n))

C8_Witness ==
    /\ hstate[1] = "joined"
    /\ hstate[2] = "joined"
    /\ body[1].step = "sum"
    /\ body[2].step = "dbl"
    /\ sent[1] = <<10, 20, 20>>
    /\ sent[2] = <<20, 10, 10>>
    /\ joinval[1].n = 50
    /\ joinval[2].n = 110

\* C9: join on a task whose body ignores its mailbox and returns a
\* constant yields that constant, whatever was sent.
C9_EmptyTask ==
    \A t \in Tasks :
        (body[t].kind = "const" /\ hstate[t] = "joined")
        => joinval[t].n = ConstResult

C9_Witness ==
    /\ body[1].kind = "const"
    /\ hstate[1] = "joined"
    /\ joinval[1].n = 42
    /\ sent[1] # <<>>
    /\ ~lastSend.ok

\* C10: send never waits: a caller holding the handle can always make the
\* call, whatever is queued; it returns Ok exactly when the mailbox exists,
\* and then the payload is at the tail of the queue.
C10_SendNonBlocking ==
    /\ [](\A t \in {1} : \A m \in Msgs :
            (cpc = "run" /\ hstate[t] = "held" /\ calls[t] < MaxSends)
            => ENABLED Send(t, m))
    /\ [][\A t \in Tasks :
            SendCalled(t)
            => /\ lastSend'.ok = rxAlive[t]
               /\ lastSend'.ok
                     => queue'[t] = Append(queue[t], lastSend'.payload)]_vars

C10_Witness ==
    /\ lastSend.ok
    /\ lastSend.len = 2
    /\ Len(queue[1]) = 3

\* Task t was spawned with its mailbox and its body has not made a step.
NotStarted(t) ==
    /\ hstate[t] # "none"
    /\ rxAlive[t]
    /\ tpc[t] = body[t].kind
    /\ log[t] = <<>>

\* C11: spawn returns the handle with the caller running and the task not
\* yet run; every send made before the task's first step returns Ok and is
\* buffered in send order, and the task's first receive returns the first
\* message sent.
C11_SpawnReturns ==
    /\ [](\A t \in Tasks :
            NotStarted(t) => queue[t] = sent[t] /\ Len(sent[t]) = calls[t])
    /\ [][\A t \in Tasks :
            /\ (hstate[t] = "none" /\ hstate'[t] # "none")
                  => /\ cpc' = "run"
                     /\ hstate'[t] = "held"
                     /\ tpc'[t] = body'[t].kind
                     /\ log'[t] = <<>>
            /\ (NotStarted(t) /\ RecvReturned(t) /\ sent[t] # <<>>)
                  => Last(log'[t]) = Some(sent[t][1])]_vars

C11_Witness ==
    /\ NotStarted(1)
    /\ body[1].kind = "fold"
    /\ calls[1] = 3
    /\ queue[1] = <<10, 20, 30>>
\* The messages of producer p among those task 1 received, in order of
\* receipt.
RcvdFrom(p) ==
    LET Mine(m) == OwnerOf(m) = p IN SelectSeq(Rcvd(1), Mine)

\* The first n messages producer p sends, in its send order.
ProdSeq(p, n) == [k \in 1..n |-> ProdMsg(p, k)]

\* C12: with several producers on one handle, the messages received from
\* each producer are a prefix of what that producer sent, in its send
\* order.
C12_PerProducer ==
    \A p \in Producers : IsPrefix(RcvdFrom(p), ProdSeq(p, pnext[p]))

\* Producer 2's first message overtakes producer 1's, and producer 1's
\* first overtakes producer 2's second.
C12_Witness ==
    /\ pnext[1] >= 1
    /\ pnext[2] >= 2
    /\ Rcvd(1) = <<ProdMsg(2, 1), ProdMsg(1, 1), ProdMsg(2, 2)>>
Ended(t) == tpc[t] \in {"done", "panicked"}

\* C13: dropping the handle leaves the task, its mailbox and its buffer as
\* they were; afterwards the task can still make its next step, and a
\* receive it starts on a drained buffer returns the closed signal.
C13_DropKeepsTask ==
    /\ [](\A t \in {1} :
            (hstate[t] = "dropped" /\ ~Ended(t)) => ENABLED TaskStep(t))
    /\ [][\A t \in Tasks :
            /\ (hstate[t] = "held" /\ hstate'[t] = "dropped" /\ cpc' = "run")
                  => /\ ~txAlive'[t]
                     /\ tpc'[t] = tpc[t]
                     /\ rxAlive'[t] = rxAlive[t]
                     /\ queue'[t] = queue[t]
                     /\ acc'[t] = acc[t]
                     /\ log'[t] = log[t]
            /\ (hstate[t] = "dropped" /\ RecvReturned(t) /\ queue[t] = <<>>
                  /\ tpc[t] # "rt_delay")
                  => Last(log'[t]) = None]_vars

C13_Witness ==
    /\ hstate[1] = "dropped"
    /\ cpc = "run"
    /\ body[1].kind = "free"
    /\ tpc[1] = "done"
    /\ log[1] = <<Some(10), Some(20), None>>
    /\ result[1].n = 2
\* Task t dropped its mailbox and is still running.
DroppedEarly(t) == ~rxAlive[t] /\ tpc[t] = "free"

\* C14 as stated: after the task dropped its mailbox while still running,
\* a send on the handle does not fail.
C14_Original ==
    [][\A t \in Tasks :
         (SendCalled(t) /\ DroppedEarly(t)) => lastSend'.ok]_vars

\* C14 as amended: after the task dropped its mailbox while still running,
\* a send on the handle returns an error that carries the payload back and
\* leaves the caller running; nothing is enqueued, and the task never
\* observes a message again.
C14_EarlyDrop ==
    [][\A t \in Tasks :
         /\ (SendCalled(t) /\ DroppedEarly(t))
               => /\ ~lastSend'.ok
                  /\ lastSend'.returned = lastSend'.payload
                  /\ cpc' = "run"
                  /\ hstate'[t] = "held"
                  /\ sent'[t] = sent[t]
         /\ DroppedEarly(t) => queue'[t] = <<>> /\ log'[t] = log[t]]_vars

C14_Witness ==
    /\ DroppedEarly(1)
    /\ lastSend.task = 1
    /\ ~lastSend.ok
    /\ lastSend.returned = 20
    /\ sent[1] = <<10>>
    /\ log[1] = <<Some(10)>>
\* What a send of m on the handle of task t would return now.
SendOutcome(t, m) ==
    LET r == ChanSend(queue[ChannelOf(t)], rxAlive[ChannelOf(t)], m) IN
    [ok |-> r.ok, returned |-> r.returned]

\* Task t's future panics in this step.
Faults(t) == tpc[t] # "panicked" /\ tpc'[t] = "panicked"

\* C15: a send after the task has panicked returns what it returns after
\* the task has returned normally (the error carrying the payload) and the
\* caller goes on; the step in which a task panics changes nothing of the
\* caller, of its handles or of any other task; and the caller is aborted
\* only while it joins a task that has panicked.
C15_FireAndForget ==
    /\ [](\A t \in Tasks : \A m \in TwoMsgs :
            Ended(t) => SendOutcome(t, m) = [ok |-> FALSE, returned |-> m])
    /\ [][\A t \in Tasks :
            /\ (SendCalled(t) /\ Ended(t))
                  => /\ ~lastSend'.ok
                     /\ lastSend'.returned = lastSend'.payload
                     /\ cpc' = "run"
                     /\ hstate' = hstate
                     /\ tpc' = tpc
            /\ Faults(t)
                  => /\ cpc' = cpc /\ hstate' = hstate /\ txAlive' = txAlive
                     /\ joinval' = joinval /\ lastSend' = lastSend
                     /\ \A u \in Tasks \ {t} :
                           /\ tpc'[u] = tpc[u] /\ rxAlive'[u] = rxAlive[u]
                           /\ queue'[u] = queue[u] /\ acc'[u] = acc[u]
                           /\ log'[u] = log[u] /\ result'[u] = result[u]
            /\ (cpc # "panicked" /\ cpc' = "panicked")
                  => \E u \in Tasks :
                        hstate[u] = "joining" /\ tpc[u] = "panicked"]_vars

C15_Witness ==
    /\ tpc[1] = "panicked"
    /\ hstate[1] = "held"
    /\ cpc = "run"
    /\ lastSend.task = 1
    /\ ~lastSend.ok
    /\ sent[1] # <<>>
    /\ hstate[2] = "joined"
    /\ joinval[2] = IntVal(20)
\* Task t's recv_timeout call returns in this step.
RtReturned(t) == InTimeout(t) /\ tpc'[t] = "free"

\* C16: a returning recv_timeout either returns the head of the queue and
\* removes exactly it, or returns Timeout or the closed signal and leaves
\* the queue as it was; while the call is pending the queue only grows at
\* its tail; and with a message in the queue, the mailbox call that follows
\* a timed-out one returns the head of the queue if it is a recv, and the
\* head or another Timeout that removes nothing if it is a recv_timeout.
C16_NoLostMessage ==
    [][\A t \in Tasks :
         /\ RtReturned(t)
               => /\ RecvReturned(t)
                  /\ \/ /\ queue[t] # <<>>
                        /\ Last(log'[t]) = Some(Head(queue[t]))
                        /\ queue'[t] = Tail(queue[t])
                     \/ /\ Last(log'[t]) = Timeout
                        /\ queue'[t] = queue[t]
                     \/ /\ Last(log'[t]) = None
                        /\ queue[t] = <<>> /\ queue'[t] = <<>>
         /\ (InTimeout(t) /\ ~RtReturned(t)) => IsPrefix(queue[t], queue'[t])
         /\ (/\ log[t] # <<>> /\ Last(log[t]) = Timeout
             /\ RecvReturned(t) /\ queue[t] # <<>>)
               => \/ /\ Last(log'[t]) = Some(Head(queue[t]))
                     /\ queue'[t] = Tail(queue[t])
                  \/ /\ RtReturned(t)
                     /\ Last(log'[t]) = Timeout
                     /\ queue'[t] = queue[t]
         /\ (/\ log[t] # <<>> /\ Last(log[t]) = Timeout
             /\ RecvReturned(t) /\ ~InTimeout(t) /\ queue[t] # <<>>)
               => Last(log'[t]) = Some(Head(queue[t]))]_vars

\* The race: the deadline has expired, recv was pending at its last poll
\* and a message has arrived since.
C16_Witness ==
    /\ tpc[1] = "rt_delay"
    /\ Elapsed(now, deadline[1])
    /\ queue[1] = <<20>>
    /\ log[1] = <<Some(10)>>
\* C17: while the caller waits in join on a task that drains its mailbox
\* until the closed signal, the two never wait for each other: the task can
\* take a step (a message or the closed signal is there for it) or join can
\* return.
C17_JoinReleases ==
    \A t \in Tasks :
        (hstate[t] = "joining" /\ body[t].kind = "drain")
            => ENABLED DrainStep(t) \/ ENABLED JoinReturn(t)

\* The joiner waits for the task, and the task, having received everything
\* that was sent, waits for a closed signal that the joiner's own sender
\* keeps from coming.
C17_Witness ==
    /\ hstate[1] = "joining"
    /\ tpc[1] = "drain"
    /\ sent[1] = <<10, 20>>
    /\ Rcvd(1) = <<10, 20>>
    /\ queue[1] = <<>>
    /\ txAlive[1]
    /\ ~ENABLED NextDrain
\* C18: a successful send appends exactly its payload at the tail of its
\* task's queue and changes nothing else of the caller or the task; a
\* failed send changes neither the queue nor the task; a mailbox call that
\* returns Some(m) removes exactly the head m; one that returns None or
\* Timeout removes nothing.
C18_Frame ==
    [][\A t \in Tasks :
         /\ SendCalled(t)
               => /\ queue' = [queue EXCEPT ![t] =
                                 IF lastSend'.ok
                                 THEN Append(@, lastSend'.payload) ELSE @]
                  /\ UNCHANGED <<body, txAlive, rxAlive, tpc, acc, iter,
                                 result, deadline, now, cpc, hstate, joinval,
                                 log, rtCall>>
         /\ (RecvReturned(t) /\ IsSome(Last(log'[t])))
               => /\ queue[t] # <<>>
                  /\ Last(log'[t]).v = Head(queue[t])
                  /\ queue' = [queue EXCEPT ![t] = Tail(@)]
         /\ (RecvReturned(t) /\ ~IsSome(Last(log'[t])))
               => /\ Last(log'[t]) \in {None, Timeout}
                  /\ queue' = queue]_vars

C18_Witness ==
    /\ log[1] = <<Some(10), Timeout>>
    /\ queue[1] = <<20, 30>>
    /\ lastSend.ok
    /\ lastSend.len = 1
\* C19: while the mailbox exists, the messages whose send returned Ok are
\* those received so far followed by those in the queue; when the mailbox
\* is destroyed, what it still held is destroyed with it and never
\* received; afterwards no send is accepted and nothing more is received,
\* so a message whose send failed is never received.
C19_Conservation ==
    /\ [](\A t \in Tasks :
            /\ rxAlive[t] => sent[t] = Rcvd(t) \o queue[t]
            /\ ~rxAlive[t] => queue[t] = <<>> /\ IsPrefix(Rcvd(t), sent[t]))
    /\ [][\A t \in Tasks :
            /\ (rxAlive[t] /\ ~rxAlive'[t])
                  => /\ sent'[t] = Rcvd(t) \o queue[t]
                     /\ Rcvd(t)' = Rcvd(t)
            /\ (~rxAlive[t] /\ hstate[t] # "none")
                  => /\ sent'[t] = sent[t]
                     /\ Rcvd(t)' = Rcvd(t)
                     /\ ~rxAlive'[t]
            /\ (SendCalled(t) /\ ~lastSend'.ok)
                  => ~rxAlive[t] /\ sent'[t] = sent[t]
            /\ (SendCalled(t) /\ lastSend'.ok)
                  => sent'[t] = Append(sent[t], lastSend'.payload)]_vars

\* An accepted message that is never received, and a refused one.
C19_Witness ==
    /\ tpc[1] = "done"
    /\ sent[1] = <<10, 20>>
    /\ Rcvd(1) = <<10>>
    /\ calls[1] = 3
    /\ lastSend.payload = 30
    /\ ~lastSend.ok
\* Task t's recv_timeout call returns Timeout in this step.
TimedOut(t) == RtReturned(t) /\ Last(log'[t]) = Timeout

\* C20 as stated, in its last part: recv_timeout returns Timeout only with
\* the mailbox empty and open.
C20_Original ==
    [][\A t \in Tasks : TimedOut(t) => queue[t] = <<>> /\ txAlive[t]]_vars

\* C20 as amended: whenever recv_timeout polls recv, a non-empty queue
\* makes it return Ok(Some(head)) and an empty queue whose producers are
\* all gone makes it return Ok(None), both whatever the deadline; it
\* returns Timeout only once the deadline has elapsed and the mailbox was
\* empty and open when recv was last polled.
C20_LikeRecv ==
    [][\A t \in Tasks :
         /\ (tpc[t] = "rt_recv" /\ tpc'[t] # "rt_recv")
               => \/ /\ queue[t] # <<>>
                     /\ RtReturned(t)
                     /\ Last(log'[t]) = Some(Head(queue[t]))
                  \/ /\ queue[t] = <<>> /\ ~txAlive[t]
                     /\ RtReturned(t)
                     /\ Last(log'[t]) = None
                  \/ /\ queue[t] = <<>> /\ txAlive[t]
                     /\ tpc'[t] = "rt_delay"
                     /\ log'[t] = log[t]
         /\ TimedOut(t)
               => /\ tpc[t] = "rt_delay"
                  /\ now >= rtCall[t].at + rtCall[t].d
         /\ (RtReturned(t) /\ tpc[t] # "rt_recv")
               => TimedOut(t)]_vars

\* The closed signal is returned before the deadline.
C20_Witness ==
    /\ tpc[1] = "free"
    /\ log[1] = <<Some(10), None>>
    /\ rtCall[1].at = 0
    /\ rtCall[1].d = 2
    /\ rtCall[1].end = 1
====
